---- MODULE Spec2Model ----
(***************************************************************************)
(* A model of the core of the jormungandr node:                            *)
(*   - src/src/network/p2p/comm.rs    subscription channels, CommHandle,   *)
(*                                    PeerComms and the PeerMap            *)
(*   - src/src/blockchain/process.rs  the block intake router `process`    *)
(*   - src/src/fragment/selection.rs  the OldestFirst fragment selection   *)
(*                                                                         *)
(* The three components share no state, so each has a specification of     *)
(* its own (SpecComm, SpecMap, SpecProcess, SpecSelect) over the           *)
(* variables of this one module; the variables of the other components     *)
(* keep their initial value.                                               *)
(***************************************************************************)
EXTENDS Naturals, Integers, Sequences, FiniteSets, TLC

VARIABLES
    \* ---- comm.rs ----
    chans,          \* every mpsc channel created so far, by channel id
    accepted,       \* per channel: the items whose try_send returned Ok (history)
    handle,         \* SpecComm: the SubscriptionState of one CommHandle<T>
    nitems,         \* SpecComm: number of try_send calls made so far
    lastSend,       \* SpecComm: what the last try_send call returned
    subscribedAt,   \* SpecComm: per channel, the number of try_send calls made
                    \* before the subscribe that created it (history)
    map,            \* SpecMap: the HashMap<NodeId, PeerComms> behind the mutex
    lastCall,       \* SpecMap: the last PeerMap call, its arguments and its result
    \* ---- process.rs ----
    pc,             \* position of the router inside `process`
    bquery,         \* the BlockMsg being handled
    chainLock,      \* holder of the RwLock write permission of the blockchain
    chain,          \* the calls of handle_incoming_block, in order, with their outcome
    network_broadcast, \* the messages sent on the network_broadcast channel, in order
    received,       \* the messages process was called with, in order (history)
    \* ---- selection.rs ----
    alg,            \* the OldestFirst value (builder, max_per_block), or NoAlg
    pool,           \* Pool: the identifiers of the resident fragments
    entries_by_time,\* Pool::entries_by_time, the FIFO-by-time view
    logs,           \* Logs: fragment identifier -> Status
    inserted,       \* the fragments in the order they entered the pool (history)
    finalized,      \* the BlockBuilder the last finalize call returned
    lastSelect      \* the arguments and the pops of the last select call (history)

commVars == <<chans, accepted, handle, nitems, lastSend, subscribedAt>>
mapVars == <<map, lastCall>>
procVars == <<pc, bquery, chainLock, chain, network_broadcast, received>>
selVars == <<alg, pool, entries_by_time, logs, inserted, finalized, lastSelect>>
vars == <<commVars, mapVars, procVars, selVars>>

\* ------------------------------------------------------------------ bounds
\* Channels created in one behaviour (each subscribe creates one).
MaxChans == 2
\* try_send calls in one behaviour of SpecComm; items are numbered 1..MaxItems.
MaxItems == 10
\* Channels created in one behaviour of SpecMap.
MaxMapChans == 2
\* Items accepted in one behaviour of SpecMap before the sending calls stop.
MaxSends == 1
\* Channels created in one behaviour of SpecMapDeep.
MaxDeepChans == 1
\* Items the consumer of one channel takes in one behaviour of SpecMap.
MaxPolls == 1
\* Messages the router receives in one behaviour of SpecProcess.
MaxMsgs == 3
\* The largest max_per_block an OldestFirst is created with.
MaxPerBlock == 2
\* select calls in one behaviour of SpecSelect.
MaxSelects == 2

\* ------------------------------------------------------- program constants
\* comm.rs:19
BUFFER_LEN == 8

\* ======================================================================
\* futures 0.1 `sync::mpsc` bounded channel, as comm.rs uses it
\* (mpsc::channel at comm.rs:87, Sender::try_send at comm.rs:102,
\* Receiver::poll at comm.rs:55, the drops of Sender and Receiver).
\*
\* A channel created by mpsc::channel(buffer) accepts messages while the
\* sender is not parked; the send that makes the number of queued messages
\* exceed `buffer` still enqueues its message and parks the sender ("the
\* channel's capacity is equal to buffer + num-senders"; there is one
\* sender here, a CommHandle never clones it). A parked sender's try_send
\* is rejected as full. The receiver unparks the sender when it takes a
\* message, and when it is dropped. Dropping the sender ends the stream
\* after the messages already queued.
\* ======================================================================

\* (tx, rx) = mpsc::channel(BUFFER_LEN): an empty open channel.
\*   q       the queued messages, oldest first
\*   rx      the Receiver (inside a Subscription) has not been dropped
\*   tx      the Sender has not been dropped
\*   parked  the sender is parked (the queue went over the buffer size)
\*   out     what the Subscription stream has yielded so far (history)
\*   ended   the Subscription stream has yielded end of stream
NewChannel ==
    [q |-> <<>>, rx |-> TRUE, tx |-> TRUE, parked |-> FALSE,
     out |-> <<>>, ended |-> FALSE]

\* A variant of Enqueue that queues the newest message first.
EnqueueFront(q, item) == <<item>> \o q

\* What Sender::try_send does with the queue when it accepts the message.
Enqueue(q, item) == Append(q, item)

\* A variant of ParksSender that parks the sender once the queue holds
\* BUFFER_LEN messages, the slot of the sender not counted.
ParksSenderAtBuffer(n) == n >= BUFFER_LEN

\* Whether the accepted message parks the sender: inc_num_messages compares
\* the number of queued messages, the new one included, with the buffer size.
ParksSender(n) == n > BUFFER_LEN

\* Sender::try_send(item): [err, ch], err one of "none", "full", "disconnected".
\* A parked sender is rejected first; then a closed channel; else the item is queued.
SenderTrySend(ch, item) ==
    IF ch.parked
    THEN [err |-> "full", ch |-> ch]
    ELSE IF ~ch.rx
    THEN [err |-> "disconnected", ch |-> ch]
    ELSE [err |-> "none",
          ch |-> [ch EXCEPT !.q = Enqueue(ch.q, item),
                            !.parked = ParksSender(Len(ch.q) + 1)]]

\* Dropping the Sender: the stream ends after the queued messages.
DropSender(ch) == [ch EXCEPT !.tx = FALSE]

\* Dropping the Receiver: the channel is closed, the parked sender is woken
\* and the queued messages are dropped.
DropReceiver(ch) == [ch EXCEPT !.rx = FALSE, !.parked = FALSE, !.q = <<>>]

\* Whether Subscription::poll returns Ready (a message, or end of stream)
\* rather than NotReady.
PollReady(ch) == ch.rx /\ ~ch.ended /\ (ch.q # <<>> \/ ~ch.tx)

\* A variant of PollChannel that leaves the yielded message in the queue.
PollChannelKeepsHead(ch) ==
    IF ch.q # <<>>
    THEN [ch EXCEPT !.parked = FALSE, !.out = Append(ch.out, Head(ch.q))]
    ELSE [ch EXCEPT !.ended = TRUE]

\* Subscription::poll when ready: the oldest message is yielded and the sender
\* unparked; with nothing queued and the sender gone the stream ends.
PollChannel(ch) ==
    IF ch.q # <<>>
    THEN [ch EXCEPT !.q = Tail(ch.q), !.parked = FALSE,
                    !.out = Append(ch.out, Head(ch.q))]
    ELSE [ch EXCEPT !.ended = TRUE]

\* ======================================================================
\* CommHandle<T>
\* ======================================================================

\* SubscriptionState::NotSubscribed
NotSubscribed == [state |-> "NotSubscribed", sender |-> 0]

\* SubscriptionState::Subscribed(tx), tx the Sender of channel c
Subscribed(c) == [state |-> "Subscribed", sender |-> c]

\* A variant of DropState in which the replaced state keeps its Sender alive.
DropStateKeepsSender(st, cs) == cs

\* The channels after a SubscriptionState value is dropped: its Sender, if
\* it holds one, is dropped.
DropState(st, cs) ==
    IF st.state = "Subscribed"
    THEN [cs EXCEPT ![st.sender] = DropSender(cs[st.sender])]
    ELSE cs

\* CommHandle::subscribe: a new channel; the handle's state is overwritten
\* with Subscribed(tx), which drops the previous state. [st, cs]; the
\* returned Subscription is the Receiver of channel Len(cs).
CommSubscribe(st, cs) ==
    LET c == Len(cs) + 1
    IN  [st |-> Subscribed(c), cs |-> Append(DropState(st, cs), NewChannel)]

\* The ErrorKind CommHandle::try_send gives a TrySendError.
ErrorKindOf(err) ==
    IF err = "disconnected" THEN "SubscriptionClosed"
    ELSE IF err = "full" THEN "StreamOverflow"
    ELSE "Unexpected"

\* CommHandle::try_send(item): [kind, item, cs]; kind "Ok" or the ErrorKind of
\* the PropagateError, item the item the error hands back (0 when Ok).
CommTrySend(st, cs, item) ==
    IF st.state = "NotSubscribed"
    THEN [kind |-> "NotSubscribed", item |-> item, cs |-> cs]
    ELSE LET r == SenderTrySend(cs[st.sender], item)
         IN  IF r.err = "none"
             THEN [kind |-> "Ok", item |-> 0,
                   cs |-> [cs EXCEPT ![st.sender] = r.ch]]
             ELSE [kind |-> ErrorKindOf(r.err), item |-> item, cs |-> cs]

\* The history of accepted items after a try_send on state st returned kind.
Accept(acc, st, kind, item) ==
    IF kind = "Ok"
    THEN [acc EXCEPT ![st.sender] = Append(acc[st.sender], item)]
    ELSE acc

\* ----------------------------------------------------------------------
\* SpecComm: one CommHandle and the Subscriptions it handed out
\* ----------------------------------------------------------------------

\* lastSend: kind and item are the result (kind "Ok" or the ErrorKind, item the
\* item handed back), sent the item passed in, chan the channel of the handle,
\* and queued, polled, rx the state of that channel when try_send was called:
\* the messages waiting in it, those its stream had yielded, its Receiver alive.
NoSend ==
    [kind |-> "none", item |-> 0, sent |-> 0, chan |-> 0,
     queued |-> 0, polled |-> 0, rx |-> FALSE]

InitChans == chans = <<>> /\ accepted = <<>>

InitComm ==
    /\ InitChans
    /\ handle = NotSubscribed
    /\ nitems = 0
    /\ lastSend = NoSend
    /\ subscribedAt = <<>>

\* handle.subscribe()
Subscribe ==
    /\ Len(chans) < MaxChans
    /\ LET r == CommSubscribe(handle, chans)
       IN  /\ handle' = r.st
           /\ chans' = r.cs
           /\ accepted' = Append(accepted, <<>>)
    /\ subscribedAt' = Append(subscribedAt, nitems)
    /\ UNCHANGED <<nitems, lastSend, mapVars, procVars, selVars>>

\* handle.try_send(item), item the next fresh item
TrySend ==
    /\ nitems < MaxItems
    /\ LET item == nitems + 1
           r == CommTrySend(handle, chans, item)
       IN  /\ chans' = r.cs
           /\ accepted' = Accept(accepted, handle, r.kind, item)
           /\ nitems' = item
           /\ lastSend' =
                 [kind |-> r.kind, item |-> r.item, sent |-> item,
                  chan |-> handle.sender,
                  queued |-> IF handle.state = "Subscribed"
                             THEN Len(chans[handle.sender].q) ELSE 0,
                  polled |-> IF handle.state = "Subscribed"
                             THEN Len(chans[handle.sender].out) ELSE 0,
                  rx |-> handle.state = "Subscribed" /\ chans[handle.sender].rx]
    /\ UNCHANGED <<handle, subscribedAt, mapVars, procVars, selVars>>

\* The consumer of channel c polls its Subscription and gets Ready.
Poll(c) ==
    /\ PollReady(chans[c])
    /\ chans' = [chans EXCEPT ![c] = PollChannel(chans[c])]
    /\ UNCHANGED <<accepted, handle, nitems, lastSend, subscribedAt,
                   mapVars, procVars, selVars>>

\* The consumer of channel c drops its Subscription.
DropSubscription(c) ==
    /\ chans[c].rx
    /\ chans' = [chans EXCEPT ![c] = DropReceiver(chans[c])]
    /\ UNCHANGED <<accepted, handle, nitems, lastSend, subscribedAt,
                   mapVars, procVars, selVars>>

\* ======================================================================
\* PeerComms and PeerMap
\* ======================================================================

\* The peers (topology::NodeId values).
Peers == {"A", "B"}

\* The four CommHandle fields of PeerComms.
Topics == {"block_announcements", "block_solicitations", "messages", "gossip"}

\* topology::Node values and Node::id().
Nodes == [id : Peers]
NodeId(node) == node.id

\* The node lists a propagation is called with in SpecMap: the lists of at
\* most two distinct nodes (SpecMapDeep lists a node twice).
NodeLists ==
    {<<>>} \cup {<<n>> : n \in Nodes} \cup {l \in Nodes \X Nodes : l[1] # l[2]}

\* The payloads of each topic.
Headers == {"h1"}
Messages == {"m1"}
Gossips == {"g1"}
HashLists == {"hs1"}

\* PeerComms::new(): every handle NotSubscribed.
PeerCommsNew == [t \in Topics |-> NotSubscribed]

\* A variant of DropPeerComms that drops the announcement handle only.
DropAnnouncementsOnly(comms, cs) == DropState(comms["block_announcements"], cs)

\* The channels after a PeerComms value is dropped: its four handles are.
DropPeerComms(comms, cs) ==
    DropState(comms["gossip"],
        DropState(comms["messages"],
            DropState(comms["block_solicitations"],
                DropState(comms["block_announcements"], cs))))

\* A variant of MapInsert that keeps the record the map already holds.
MapInsertIfAbsent(m, id, comms) ==
    IF id \in DOMAIN m
    THEN m
    ELSE [p \in DOMAIN m \cup {id} |-> IF p = id THEN comms ELSE m[p]]

\* HashMap::insert(id, comms), the value it replaces not yet dropped.
MapInsert(m, id, comms) ==
    [p \in DOMAIN m \cup {id} |-> IF p = id THEN comms ELSE m[p]]

\* A variant of MapRemove that leaves the entry in the map.
MapRemoveNothing(m, id) == m

\* Entry::remove_entry(), the removed value not yet dropped.
MapRemove(m, id) == [p \in DOMAIN m \ {id} |-> m[p]]

\* A variant of EnsurePeerComms that installs a new record every time.
EnsureAlwaysNew(m, id) ==
    [p \in DOMAIN m \cup {id} |-> IF p = id THEN PeerCommsNew ELSE m[p]]

\* ensure_peer_comms(map, id): entry(id).or_insert(PeerComms::new())
EnsurePeerComms(m, id) ==
    IF id \in DOMAIN m THEN m ELSE MapInsert(m, id, PeerCommsNew)

\* handles.<topic>.subscribe() on the record of id: [map, cs].
SubscribeTopic(m, cs, id, topic) ==
    LET r == CommSubscribe(m[id][topic], cs)
    IN  [map |-> [m EXCEPT ![id][topic] = r.st], cs |-> r.cs]

\* A variant of EntryRemovedOn that keeps the entry of a peer that overflowed.
EntryRemovedUnlessOverflow(kind) == kind # "StreamOverflow"

\* Whether propagate_with and propagate_gossip_to remove the peer's entry
\* after a failed try_send of this ErrorKind: the Err arm removes it whatever
\* the kind.
EntryRemovedOn(kind) == TRUE

\* The Receiver a try_send on state st faces: "alive", "dropped", or "none"
\* when st holds no Sender.
ReceiverOf(st, cs) ==
    IF st.state = "Subscribed"
    THEN IF cs[st.sender].rx THEN "alive" ELSE "dropped"
    ELSE "none"

\* One step of the filter closure of propagate_with, for one listed node, from
\* st = [map, cs, acc, unreached, kinds, rx]: kinds records, per listed node,
\* "Absent" or what try_send returned, rx the Receiver the try_send faced.
PropagateOne(st, node, topic, item) ==
    LET id == NodeId(node)
    IN  IF id \in DOMAIN st.map
        THEN LET h == st.map[id][topic]
                 r == CommTrySend(h, st.cs, item)
             IN  IF r.kind = "Ok"
                 THEN [st EXCEPT !.cs = r.cs,
                                 !.acc = Accept(st.acc, h, r.kind, item),
                                 !.kinds = Append(st.kinds, "Ok"),
                                 !.rx = Append(st.rx, ReceiverOf(h, st.cs))]
                 ELSE IF EntryRemovedOn(r.kind)
                 THEN [st EXCEPT !.map = MapRemove(st.map, id),
                                 !.cs = DropPeerComms(st.map[id], st.cs),
                                 !.unreached = Append(st.unreached, node),
                                 !.kinds = Append(st.kinds, r.kind),
                                 !.rx = Append(st.rx, ReceiverOf(h, st.cs))]
                 ELSE [st EXCEPT !.unreached = Append(st.unreached, node),
                                 !.kinds = Append(st.kinds, r.kind),
                                 !.rx = Append(st.rx, ReceiverOf(h, st.cs))]
        ELSE [st EXCEPT !.unreached = Append(st.unreached, node),
                        !.kinds = Append(st.kinds, "Absent"),
                        !.rx = Append(st.rx, "none")]

\* propagate_with(nodes, f), f the try_send of `item` on `topic`: the nodes are
\* filtered in the order listed, under one acquisition of the mutex.
RECURSIVE PropagateWith(_, _, _, _)
PropagateWith(st, nodes, topic, item) ==
    IF nodes = <<>>
    THEN st
    ELSE PropagateWith(PropagateOne(st, Head(nodes), topic, item),
                       Tail(nodes), topic, item)

\* A variant of PropagateResult that reports success whatever happened.
PropagateResultAlwaysOk(unreached) == "ok"

\* Ok(()) when nobody is unreached, else Err(unreached_nodes).
PropagateResult(unreached) == IF unreached = <<>> THEN "ok" ELSE "err"

\* lastCall: the last call of a PeerMap method: op its name, nodes the nodes
\* (or the one peer) it was called with, item its payload, result "ok" or "err" (or "" for solicit_blocks,
\* which returns no Result), unreached the nodes an Err(unreached_nodes)
\* lists, returned the gossip an Err(gossip) hands back, kinds, per node,
\* "Absent" or what try_send returned, rx, per node, the Receiver the
\* try_send faced (ReceiverOf), pre_map and pre_acc the map and the accepted
\* items when the call was made.  A call that sends nothing
\* (insert_peer, subscribe_to_*) records op, nodes, pre_map and pre_acc.
NoCall ==
    [op |-> "none", nodes |-> <<>>, item |-> "", result |-> "",
     unreached |-> <<>>, returned |-> "", kinds |-> <<>>, rx |-> <<>>,
     pre_map |-> <<>>, pre_acc |-> <<>>]

InitMap ==
    /\ map = [p \in {} |-> PeerCommsNew]
    /\ lastCall = NoCall

\* The part of lastCall every call records.
Call(op, nodes, item) ==
    [NoCall EXCEPT !.op = op, !.nodes = nodes, !.item = item,
                   !.pre_map = map, !.pre_acc = accepted]

\* insert_peer(id, handles), handles a PeerComms::new() on which the caller has
\* subscribed the topics of `subscribed` (PeerComms::subscribe_to_*).
InsertPeer(id, subscribed) ==
    /\ LET RECURSIVE Build(_, _)
           Build(st, topics) ==
               IF topics = {}
               THEN st
               ELSE LET t == CHOOSE x \in topics : TRUE
                        r == CommSubscribe(st.comms[t], st.cs)
                    IN  Build([comms |-> [st.comms EXCEPT ![t] = r.st],
                               cs |-> r.cs], topics \ {t})
           built == Build([comms |-> PeerCommsNew, cs |-> chans], subscribed)
           replaced == IF id \in DOMAIN map THEN DropPeerComms(map[id], built.cs)
                       ELSE built.cs
       IN  /\ map' = MapInsert(map, id, built.comms)
           /\ chans' = replaced
           /\ accepted' = accepted \o [i \in 1..Cardinality(subscribed) |-> <<>>]
    /\ lastCall' = Call("insert_peer", <<[id |-> id]>>, "")
    /\ UNCHANGED <<handle, nitems, lastSend, subscribedAt, procVars, selVars>>

\* subscribe_to_block_events(id)
SubscribeToBlockEvents(id) ==
    /\ LET m0 == EnsurePeerComms(map, id)
           r1 == SubscribeTopic(m0, chans, id, "block_announcements")
           r2 == SubscribeTopic(r1.map, r1.cs, id, "block_solicitations")
       IN  /\ map' = r2.map
           /\ chans' = r2.cs
           /\ accepted' = accepted \o <<<<>>, <<>>>>
    /\ lastCall' = Call("subscribe_to_block_events", <<[id |-> id]>>, "")
    /\ UNCHANGED <<handle, nitems, lastSend, subscribedAt, procVars, selVars>>

\* subscribe_to_messages(id)
SubscribeToMessages(id) ==
    /\ LET r == SubscribeTopic(EnsurePeerComms(map, id), chans, id, "messages")
       IN  /\ map' = r.map
           /\ chans' = r.cs
           /\ accepted' = Append(accepted, <<>>)
    /\ lastCall' = Call("subscribe_to_messages", <<[id |-> id]>>, "")
    /\ UNCHANGED <<handle, nitems, lastSend, subscribedAt, procVars, selVars>>

\* subscribe_to_gossip(id)
SubscribeToGossip(id) ==
    /\ LET r == SubscribeTopic(EnsurePeerComms(map, id), chans, id, "gossip")
       IN  /\ map' = r.map
           /\ chans' = r.cs
           /\ accepted' = Append(accepted, <<>>)
    /\ lastCall' = Call("subscribe_to_gossip", <<[id |-> id]>>, "")
    /\ UNCHANGED <<handle, nitems, lastSend, subscribedAt, procVars, selVars>>

\* The body shared by propagate_block and propagate_message.
Propagate(op, nodes, topic, item) ==
    /\ LET st0 == [map |-> map, cs |-> chans, acc |-> accepted,
                   unreached |-> <<>>, kinds |-> <<>>, rx |-> <<>>]
           st == PropagateWith(st0, nodes, topic, item)
       IN  /\ map' = st.map
           /\ chans' = st.cs
           /\ accepted' = st.acc
           /\ lastCall' = [Call(op, nodes, item) EXCEPT
                             !.result = PropagateResult(st.unreached),
                             !.unreached = st.unreached,
                             !.kinds = st.kinds,
                             !.rx = st.rx]
    /\ UNCHANGED <<handle, nitems, lastSend, subscribedAt, procVars, selVars>>

\* propagate_block(nodes, header)
PropagateBlock(nodes, header) ==
    Propagate("propagate_block", nodes, "block_announcements", header)

\* propagate_message(nodes, message)
PropagateMessage(nodes, message) ==
    Propagate("propagate_message", nodes, "messages", message)

\* propagate_gossip_to(target, gossip)
PropagateGossipTo(target, gossip) ==
    /\ LET call == Call("propagate_gossip_to", <<[id |-> target]>>, gossip)
       IN  IF target \in DOMAIN map
           THEN LET h == map[target]["gossip"]
                    r == CommTrySend(h, chans, gossip)
                IN  IF r.kind = "Ok"
                    THEN /\ map' = map
                         /\ chans' = r.cs
                         /\ accepted' = Accept(accepted, h, r.kind, gossip)
                         /\ lastCall' = [call EXCEPT !.result = "ok",
                                                     !.kinds = <<"Ok">>,
                                                     !.rx = <<ReceiverOf(h, chans)>>]
                    ELSE /\ map' = IF EntryRemovedOn(r.kind)
                                   THEN MapRemove(map, target) ELSE map
                         /\ chans' = IF EntryRemovedOn(r.kind)
                                     THEN DropPeerComms(map[target], chans)
                                     ELSE chans
                         /\ accepted' = accepted
                         /\ lastCall' = [call EXCEPT !.result = "err",
                                                     !.returned = r.item,
                                                     !.kinds = <<r.kind>>,
                                                     !.rx = <<ReceiverOf(h, chans)>>]
           ELSE /\ UNCHANGED <<map, chans, accepted>>
                /\ lastCall' = [call EXCEPT !.result = "err", !.returned = gossip,
                                            !.kinds = <<"Absent">>,
                                            !.rx = <<"none">>]
    /\ UNCHANGED <<handle, nitems, lastSend, subscribedAt, procVars, selVars>>

\* A variant of OnSolicitFailure that unsubscribes the peer.
SolicitFailureRemoves(m, node_id) == [p \in DOMAIN m \ {node_id} |-> m[p]]

\* The map after the unwrap_or_else closure of solicit_blocks ran on a failed
\* try_send: the closure logs a warning and nothing else.
OnSolicitFailure(m, node_id) == m

\* solicit_blocks(node_id, hashes): a failure is logged and nothing else.
SolicitBlocks(node_id, hashes) ==
    /\ LET call == Call("solicit_blocks", <<[id |-> node_id]>>, hashes)
       IN  IF node_id \in DOMAIN map
           THEN LET h == map[node_id]["block_solicitations"]
                    r == CommTrySend(h, chans, hashes)
                IN  /\ map' = IF r.kind = "Ok" THEN map
                                ELSE OnSolicitFailure(map, node_id)
                    /\ chans' = r.cs
                    /\ accepted' = Accept(accepted, h, r.kind, hashes)
                    /\ lastCall' = [call EXCEPT !.kinds = <<r.kind>>,
                                                !.rx = <<ReceiverOf(h, chans)>>]
           ELSE /\ UNCHANGED <<map, chans, accepted>>
                /\ lastCall' = [call EXCEPT !.kinds = <<"Absent">>,
                                            !.rx = <<"none">>]
    /\ UNCHANGED <<handle, nitems, lastSend, subscribedAt, procVars, selVars>>

\* The consumer of channel c polls its Subscription and gets Ready.
MapPoll(c) ==
    /\ Len(chans[c].out) < MaxPolls
    /\ Poll(c)

\* The topic sets a caller of insert_peer has subscribed on the handles, in
\* SpecMap (SpecMapDeep inserts handles with nothing subscribed as well).
InsertSubscriptions == {{"block_announcements"}}

\* Channels may still be created: n more fit under the bound max.
CanCreate(n, max) == Len(chans) + n <= max

\* The number of items accepted so far, over all channels.
RECURSIVE TotalLen(_)
TotalLen(seqs) == IF seqs = <<>> THEN 0 ELSE Len(Head(seqs)) + TotalLen(Tail(seqs))

\* The budget of SpecMap: sending calls are made while fewer than MaxSends
\* items have been accepted.
Budgeted == TotalLen(accepted) < MaxSends

\* The peer map with two peers; the sending calls are budgeted, so every
\* queue stays short.  The calls that send to one peer (propagate_gossip_to,
\* solicit_blocks) are left to SpecMapDeep.
NextMap ==
    \/ \E id \in Peers, subscribed \in InsertSubscriptions :
          CanCreate(Cardinality(subscribed), MaxMapChans) /\ InsertPeer(id, subscribed)
    \/ \E id \in Peers : CanCreate(2, MaxMapChans) /\ SubscribeToBlockEvents(id)
    \/ \E id \in Peers : CanCreate(1, MaxMapChans) /\ SubscribeToMessages(id)
    \/ \E id \in Peers : CanCreate(1, MaxMapChans) /\ SubscribeToGossip(id)
    \/ \E nodes \in NodeLists, header \in Headers :
          Budgeted /\ PropagateBlock(nodes, header)
    \/ \E nodes \in NodeLists, message \in Messages :
          Budgeted /\ PropagateMessage(nodes, message)
    \/ \E c \in 1..Len(chans) : MapPoll(c)
    \/ \E c \in 1..Len(chans) : DropSubscription(c)

\* The peer map with one peer and no budget on the sending calls: a queue
\* fills up to the capacity of its channel.  The caller of insert_peer has
\* subscribed at most one topic, and a consumer polls only when its channel is
\* full (SpecMap polls at any time).
DeepPeers == {"A"}
DeepNodeLists == {<<>>, <<[id |-> "A"]>>, <<[id |-> "A"], [id |-> "A"]>>}
DeepInsertSubscriptions == {{}} \cup {{t} : t \in Topics}

DeepPoll(c) ==
    /\ chans[c].parked
    /\ MapPoll(c)

NextMapDeep ==
    \/ \E id \in DeepPeers, subscribed \in DeepInsertSubscriptions :
          CanCreate(Cardinality(subscribed), MaxDeepChans) /\ InsertPeer(id, subscribed)
    \/ \E nodes \in DeepNodeLists, header \in Headers :
          PropagateBlock(nodes, header)
    \/ \E nodes \in DeepNodeLists, message \in Messages :
          PropagateMessage(nodes, message)
    \/ \E target \in DeepPeers, gossip \in Gossips :
          PropagateGossipTo(target, gossip)
    \/ \E node_id \in DeepPeers, hashes \in HashLists :
          SolicitBlocks(node_id, hashes)
    \/ \E c \in 1..Len(chans) : DeepPoll(c)
    \/ \E c \in 1..Len(chans) : DropSubscription(c)

\* ======================================================================
\* selection.rs: OldestFirst
\* ======================================================================

\* The fragment identifiers; a fragment is known by its identifier.
Fragments == {"f1", "f2", "f3"}

\* The block date of the HeaderContentEvalContext of the n-th select call of a
\* behaviour: every block is assembled for a later date than the one before.
BlockDateOf(n) == n

\* The errors Ledger::apply_fragment can return.
LedgerErrors == {"BadSignature", "NotEnoughFee"}

\* A ledger, by what apply_fragment returns for each fragment: "ok" or an error.
Ledgers == [Fragments -> {"ok"} \cup LedgerErrors]

\* The ledgers a select call is tried with: apply_fragment is called on
\* resident fragments only, so one answer is enough for the others.
LedgersFor(resident) ==
    {l \in Ledgers : \A f \in Fragments \ resident : l[f] = "ok"}

\* error.to_string()
ErrorToString(e) ==
    IF e = "BadSignature" THEN "bad sig"
    ELSE IF e = "NotEnoughFee" THEN "fee too low"
    ELSE "unknown"

\* Status values; NoEntry stands for an identifier the log does not hold.
NoEntry == [tag |-> "NoEntry", date |-> 0, reason |-> ""]
Pending == [tag |-> "Pending", date |-> 0, reason |-> ""]
InABlock(date) == [tag |-> "InABlock", date |-> date, reason |-> ""]
Rejected(reason) == [tag |-> "Rejected", date |-> 0, reason |-> reason]

\* Logs::modify(id, status): updates unconditionally.
LogsModify(lg, id, status) == [lg EXCEPT ![id] = status]

\* Pool::remove(id): the resident fragments without id.
PoolRemove(pl, id) == pl \ {id}

\* No OldestFirst value exists.
NoAlg == [builder |-> <<>>, max_per_block |-> 0, live |-> FALSE]

\* OldestFirst::new(max_per_block)
OldestFirstNew(max_per_block) ==
    [builder |-> <<>>, max_per_block |-> max_per_block, live |-> TRUE]

NoSelect ==
    [ledger |-> <<>>, date |-> 0, max_per_block |-> 0,
     pre_pool |-> {}, pre_entries |-> <<>>, pre_builder |-> <<>>, pre_logs |-> <<>>,
     popped |-> <<>>, applied |-> <<>>, total |-> 0, panicked |-> FALSE,
     post_pool |-> {}, post_entries |-> <<>>, post_builder |-> <<>>, calls |-> 0]

InitSelect ==
    /\ alg = NoAlg
    /\ pool = {}
    /\ entries_by_time = <<>>
    /\ logs = [f \in Fragments |-> NoEntry]
    /\ inserted = <<>>
    /\ finalized = <<>>
    /\ lastSelect = NoSelect

\* A variant of LimitReached that stops one fragment late.
LimitExceeded(total, max_per_block) == total > max_per_block

\* `if total >= self.max_per_block { break; }`
LimitReached(total, max_per_block) == total >= max_per_block

\* A variant of BuilderMessage that puts the fragment first.
BuilderMessageFront(builder, fragment) == <<fragment>> \o builder

\* BlockBuilder::message(fragment)
BuilderMessage(builder, fragment) == Append(builder, fragment)

\* The Ok arm of the match on apply_fragment: the fragment goes into the
\* builder, its log entry becomes InABlock and the count goes up.
OnAccepted(st, id, date) ==
    [st EXCEPT !.builder = BuilderMessage(st.builder, id),
               !.logs = LogsModify(st.logs, id, InABlock(date)),
               !.total = st.total + 1]

\* The Err arm: the log entry becomes Rejected with the error's text.
OnRejected(st, id, error) ==
    [st EXCEPT !.logs = LogsModify(st.logs, id, Rejected(ErrorToString(error)))]

\* The `while let Some(id) = pool.entries_by_time.pop_front()` loop of select,
\* from the loop state st = [total, builder, pool, entries, logs] and the history
\* of the call: popped (the identifiers pop_front returned), applied (those
\* apply_fragment was called on), panicked (unwrap failed).
\* The identifier is popped before the limit is tested; pool.remove(&id).unwrap()
\* panics when id is not resident.
RECURSIVE SelectLoop(_, _, _, _)
SelectLoop(st, ledger, date, max_per_block) ==
    IF st.entries = <<>>
    THEN st
    ELSE LET id == Head(st.entries)
             st1 == [st EXCEPT !.entries = Tail(st.entries),
                               !.popped = Append(st.popped, id)]
         IN  IF LimitReached(st1.total, max_per_block)
             THEN st1
             ELSE IF id \notin st1.pool
             THEN [st1 EXCEPT !.panicked = TRUE]
             ELSE LET st2 == [st1 EXCEPT !.pool = PoolRemove(st1.pool, id),
                                         !.applied = Append(st1.applied, id)]
                  IN  IF ledger[id] = "ok"
                      THEN SelectLoop(OnAccepted(st2, id, date),
                                      ledger, date, max_per_block)
                      ELSE SelectLoop(OnRejected(st2, id, ledger[id]),
                                      ledger, date, max_per_block)

\* A fragment enters the pool: it becomes resident, youngest in the FIFO view,
\* with a Pending log entry.
PoolInsert(f) ==
    /\ logs[f] = NoEntry
    /\ pool' = pool \cup {f}
    /\ entries_by_time' = Append(entries_by_time, f)
    /\ logs' = LogsModify(logs, f, Pending)
    /\ inserted' = Append(inserted, f)
    /\ UNCHANGED <<alg, finalized, lastSelect, commVars, mapVars, procVars>>

\* OldestFirst::new(max_per_block)
NewOldestFirst(max_per_block) ==
    /\ ~alg.live
    /\ alg' = OldestFirstNew(max_per_block)
    /\ UNCHANGED <<pool, entries_by_time, logs, inserted, finalized, lastSelect,
                   commVars, mapVars, procVars>>

\* alg.select(ledger, _, metadata, logs, pool), metadata.block_date = date
Select(ledger, date) ==
    /\ alg.live
    /\ lastSelect.calls < MaxSelects
    /\ LET st0 == [total |-> 0, builder |-> alg.builder, pool |-> pool,
                   entries |-> entries_by_time, logs |-> logs,
                   popped |-> <<>>, applied |-> <<>>, panicked |-> FALSE]
           st == SelectLoop(st0, ledger, date, alg.max_per_block)
       IN  /\ alg' = [alg EXCEPT !.builder = st.builder]
           /\ pool' = st.pool
           /\ entries_by_time' = st.entries
           /\ logs' = st.logs
           /\ lastSelect' =
                 [ledger |-> ledger, date |-> date,
                  max_per_block |-> alg.max_per_block, pre_pool |-> pool,
                  pre_entries |-> entries_by_time, pre_builder |-> alg.builder,
                  pre_logs |-> logs, popped |-> st.popped, applied |-> st.applied,
                  total |-> st.total, panicked |-> st.panicked,
                  post_pool |-> st.pool, post_entries |-> st.entries,
                  post_builder |-> st.builder, calls |-> lastSelect.calls + 1]
    /\ UNCHANGED <<inserted, finalized, commVars, mapVars, procVars>>

\* alg.finalize(): the builder is returned and the OldestFirst consumed.
Finalize ==
    /\ alg.live
    /\ finalized' = alg.builder
    /\ alg' = NoAlg
    /\ UNCHANGED <<pool, entries_by_time, logs, inserted, lastSelect,
                   commVars, mapVars, procVars>>

NextSelect ==
    \/ \E f \in Fragments : PoolInsert(f)
    \/ \E k \in 0..MaxPerBlock : NewOldestFirst(k)
    \/ \E ledger \in LedgersFor(pool) : Select(ledger, BlockDateOf(lastSelect.calls + 1))
    \/ Finalize

\* ======================================================================
\* process.rs: the block intake router
\* ======================================================================

\* The blocks a message can carry.
Blocks == {"b1", "b2"}

\* BlockMsg::NetworkBlock(block) and BlockMsg::LeadershipBlock(block)
BlockMsgs == [tag : {"NetworkBlock", "LeadershipBlock"}, block : Blocks]

\* The outcomes of chain.handle_incoming_block; process discards the value.
ApplyOutcomes == {"ok", "err"}

NoMsg == [tag |-> "none", block |-> "none"]

InitProcess ==
    /\ pc = "idle"
    /\ bquery = NoMsg
    /\ chainLock = "free"
    /\ chain = <<>>
    /\ network_broadcast = <<>>
    /\ received = <<>>

\* A variant of AfterApply in which every block is broadcast.
AfterApplyAlwaysBroadcast(msg) == "broadcast"

\* Where process goes once the statement that applies the block is over:
\* a network block is done, a leadership block goes on to the broadcast.
AfterApply(msg) ==
    IF msg.tag = "LeadershipBlock" THEN "broadcast" ELSE "idle"

\* A variant of LockAfterStatement in which the guard outlives the statement.
LockHeldToEnd(holder) == holder

\* The holder of the write permission once the statement
\* `blockchain.write().unwrap().handle_incoming_block(..);` is over: the
\* guard is a temporary of that statement and is dropped at its end.
LockAfterStatement(holder) == "free"

\* process(blockchain, _, msg, network_broadcast) is called with the next message.
Receive(msg) ==
    /\ pc = "idle"
    /\ Len(received) < MaxMsgs
    /\ bquery' = msg
    /\ received' = Append(received, msg)
    /\ pc' = "write"
    /\ UNCHANGED <<chainLock, chain, network_broadcast, commVars, mapVars, selVars>>

\* blockchain.write().unwrap(): the router takes the write permission.
AcquireWrite ==
    /\ pc = "write"
    /\ chainLock = "free"
    /\ chainLock' = "router"
    /\ pc' = "apply"
    /\ UNCHANGED <<bquery, chain, network_broadcast, received, commVars, mapVars, selVars>>

\* .handle_incoming_block(block) under the write permission, with either outcome.
HandleIncomingBlock(outcome) ==
    /\ pc = "apply"
    /\ chain' = Append(chain, [block |-> bquery.block, outcome |-> outcome,
                               tag |-> bquery.tag, lock |-> chainLock])
    /\ pc' = "release"
    /\ UNCHANGED <<bquery, chainLock, network_broadcast, received, commVars, mapVars, selVars>>

\* The end of the applying statement: the write guard is dropped.
EndStatement ==
    /\ pc = "release"
    /\ chainLock' = LockAfterStatement(chainLock)
    /\ pc' = AfterApply(bquery)
    /\ UNCHANGED <<bquery, chain, network_broadcast, received, commVars, mapVars, selVars>>

\* network_broadcast.unbounded_send(NetworkBroadcastMsg::Block(block)).unwrap()
Broadcast ==
    /\ pc = "broadcast"
    /\ network_broadcast' =
          Append(network_broadcast,
                 [block |-> bquery.block, lock |-> chainLock, applied |-> Len(chain)])
    /\ pc' = "idle"
    /\ UNCHANGED <<bquery, chainLock, chain, received, commVars, mapVars, selVars>>

\* The state after construction of every component.
Init == InitComm /\ InitMap /\ InitProcess /\ InitSelect

NextProcess ==
    \/ \E msg \in BlockMsgs : Receive(msg)
    \/ AcquireWrite
    \/ \E outcome \in ApplyOutcomes : HandleIncomingBlock(outcome)
    \/ EndStatement
    \/ Broadcast

SpecProcess == Init /\ [][NextProcess]_vars

NextComm ==
    \/ Subscribe
    \/ TrySend
    \/ \E c \in 1..Len(chans) : Poll(c)
    \/ \E c \in 1..Len(chans) : DropSubscription(c)

SpecComm == Init /\ [][NextComm]_vars

SpecMap == Init /\ [][NextMap]_vars

SpecMapDeep == Init /\ [][NextMapDeep]_vars

SpecSelect == Init /\ [][NextSelect]_vars

\* ======================================================================
\* Properties of the fragment selection (SpecSelect)
\* ======================================================================

Min(a, b) == IF a <= b THEN a ELSE b
SeqSet(sq) == {sq[i] : i \in DOMAIN sq}
Take(sq, n) == SubSeq(sq, 1, Min(n, Len(sq)))

\* A select call has been made; lastSelect describes the last one.
Selected == lastSelect.calls > 0

\* The fragments resident in the pool when the last select was called, oldest first.
ResidentOldestFirst ==
    LET Resident(f) == f \in lastSelect.pre_pool
    IN  SelectSeq(inserted, Resident)

\* The ledger of the last select call accepts every resident fragment.
AllAccepted == \A f \in lastSelect.pre_pool : lastSelect.ledger[f] = "ok"

\* The fragments the ledger rejected during the last select call.
RejectedInSelect ==
    {f \in SeqSet(lastSelect.applied) : lastSelect.ledger[f] # "ok"}

\* C6 (as claimed): selection monotonicity. After select on a fresh
\* OldestFirst with max_per_block = K and a pool of N resident fragments that
\* the ledger all accepts, the builder holds exactly the min(K, N) oldest
\* resident fragments, oldest first.
C6_SelectionMonotonicity ==
    (Selected /\ lastSelect.pre_builder = <<>> /\ AllAccepted)
        => lastSelect.post_builder
             = Take(ResidentOldestFirst,
                    Min(lastSelect.max_per_block, Cardinality(lastSelect.pre_pool)))

\* C7 (as claimed): status log coverage. After select returns, every
\* fragment popped from the FIFO-by-time view during the call has a terminal
\* status, InABlock or Rejected; none remains Pending.
C7_StatusLogCoverage ==
    Selected =>
        \A f \in SeqSet(lastSelect.popped) :
            logs[f].tag \in {"InABlock", "Rejected"}

\* C8 (as claimed): a fragment the ledger rejects during select is not in
\* the builder, is logged Rejected with the ledger's reason, is removed from
\* the pool and from the FIFO view, and does not count toward max_per_block:
\* the count is the number of accepted fragments, and when it stays under
\* max_per_block the pool is empty once select returns.
C8_RejectedNotEmitted ==
    Selected =>
        /\ \A f \in RejectedInSelect :
              /\ f \notin SeqSet(lastSelect.post_builder)
              /\ logs[f] = Rejected(ErrorToString(lastSelect.ledger[f]))
              /\ f \notin pool
              /\ f \notin SeqSet(entries_by_time)
        /\ lastSelect.total
              = Len(lastSelect.applied) - Cardinality(RejectedInSelect)
        /\ lastSelect.total < lastSelect.max_per_block
              => lastSelect.post_pool = {}

\* ======================================================================
\* Properties of the block intake router (SpecProcess)
\* ======================================================================

\* C4 (as claimed): a broadcast of b is sent only if the application of b,
\* the handle_incoming_block call that preceded it, succeeded.
C4_NoBroadcastOnFailure ==
    \A i \in DOMAIN network_broadcast :
        LET sent == network_broadcast[i]
        IN  /\ sent.applied \in DOMAIN chain
            /\ chain[sent.applied].block = sent.block
            /\ chain[sent.applied].outcome = "ok"

\* C5: for every LeadershipBlock(b), b has been applied under the write
\* permission and the permission released before the broadcast of b: the
\* write permission is never held while process is at, or performs, the
\* broadcast.
C5_LockReleasedBeforeBroadcast ==
    /\ pc = "broadcast" =>
          /\ chainLock = "free"
          /\ bquery.tag = "LeadershipBlock"
          /\ chain # <<>>
          /\ chain[Len(chain)].block = bquery.block
    /\ \A i \in DOMAIN chain : chain[i].lock = "router"
    /\ \A i \in DOMAIN network_broadcast :
          LET sent == network_broadcast[i]
          IN  /\ sent.lock = "free"
              /\ sent.applied \in DOMAIN chain
              /\ chain[sent.applied].block = sent.block
              /\ chain[sent.applied].tag = "LeadershipBlock"

\* C5 witness: a leadership block has been applied and then broadcast.
C5_Witness ==
    /\ network_broadcast # <<>>
    /\ pc = "idle"
    /\ chainLock = "free"

\* ======================================================================
\* Properties of CommHandle and Subscription (SpecComm)
\* ======================================================================

IsPrefix(a, b) == Len(a) <= Len(b) /\ a = SubSeq(b, 1, Len(a))
ChanIds == 1..Len(chans)

C9_FifoPerTopic ==
    /\ \A c \in ChanIds :
          /\ IsPrefix(chans[c].out, accepted[c])
          /\ chans[c].rx => accepted[c] = chans[c].out \o chans[c].q
          /\ chans[c].ended => chans[c].out = accepted[c]
          /\ \A i, j \in DOMAIN chans[c].out :
                i < j => chans[c].out[i] < chans[c].out[j]
    /\ lastSend.kind \notin {"none", "Ok"} =>
          \A c \in ChanIds :
              lastSend.sent \notin SeqSet(chans[c].out) \cup SeqSet(chans[c].q)

\* C9 witness: a stream ended after it yielded three items, and a send failed.
C9_Witness ==
    /\ \E c \in ChanIds : chans[c].ended /\ Len(chans[c].out) >= 3
    /\ lastSend.kind \notin {"none", "Ok"}

\* C10: re-subscribe supersession. The handle holds the sender of the newest
\* channel only; the sender of every earlier channel is dropped, so a poll of
\* an earlier stream never waits: it yields one of the at most BUFFER_LEN + 1
\* items left or end of stream. The items of a channel, yielded or waiting,
\* were all sent after the subscribe that created it and before the next
\* subscribe: later try_send calls go to the new stream only.
C10_ResubscribeSupersession ==
    /\ chans # <<>> => handle = Subscribed(Len(chans))
    /\ \A c \in ChanIds :
          /\ c < Len(chans) =>
                /\ ~chans[c].tx
                /\ (chans[c].rx /\ ~chans[c].ended) => PollReady(chans[c])
                /\ Len(chans[c].q) <= BUFFER_LEN + 1
                /\ \A item \in SeqSet(accepted[c]) : item <= subscribedAt[c + 1]
          /\ \A item \in SeqSet(accepted[c]) : item > subscribedAt[c]
          /\ SeqSet(chans[c].out) \cup SeqSet(chans[c].q) \subseteq SeqSet(accepted[c])

\* C10 witness: after a re-subscription the first stream yielded what was
\* sent before it and ended, and the second stream yielded a later item.
C10_Witness ==
    \E c \in ChanIds :
        /\ c < Len(chans)
        /\ chans[c].ended
        /\ chans[c].out # <<>>
        /\ chans[c + 1].out # <<>>
        /\ subscribedAt[c + 1] > 0

\* ======================================================================
\* Claims: PeerMap (SpecMap, SpecMapDeep)
\* ======================================================================

\* The calls that propagate to listed nodes, and all the propagation paths.
ListPropagations == {"propagate_block", "propagate_message"}
Propagations == ListPropagations \cup {"propagate_gossip_to"}

\* C1 (as claimed): on every propagation path, a peer that has a record but
\* is NotSubscribed on the topic sent keeps its record, with the senders of
\* its subscribed topics not dropped, and the node is listed in unreached, or
\* the gossip handed back in the error.
C1_NotSubscribedKeepsRecord ==
    lastCall.op \in Propagations =>
        \A i \in DOMAIN lastCall.kinds :
            lastCall.kinds[i] = "NotSubscribed" =>
                LET id == NodeId(lastCall.nodes[i])
                IN  /\ lastCall.result = "err"
                    /\ IF lastCall.op = "propagate_gossip_to"
                       THEN lastCall.returned = lastCall.item
                       ELSE lastCall.nodes[i] \in SeqSet(lastCall.unreached)
                    /\ id \in DOMAIN map
                    /\ \A t \in Topics :
                          map[id][t].state = "Subscribed" =>
                              chans[map[id][t].sender].tx

\* C2: in propagate_block and propagate_message, a listed peer whose try_send
\* fails with SubscriptionClosed, StreamOverflow or Unexpected has its record
\* removed within the call, every Sender of the record dropped with it, and
\* is listed in the Err(unreached) the call returns; and the try_send on a
\* channel whose Receiver was dropped does fail, with SubscriptionClosed.
C2_BrokenPeerRemoved ==
    lastCall.op \in ListPropagations =>
        \A i \in DOMAIN lastCall.kinds :
            /\ lastCall.rx[i] = "dropped" =>
                  lastCall.kinds[i] = "SubscriptionClosed"
            /\ lastCall.kinds[i] \in
                  {"SubscriptionClosed", "StreamOverflow", "Unexpected"} =>
                  /\ NodeId(lastCall.nodes[i]) \notin DOMAIN map
                  /\ lastCall.result = "err"
                  /\ lastCall.nodes[i] \in SeqSet(lastCall.unreached)
                  /\ \A c \in ChanIds :
                        chans[c].tx =>
                            \E p \in DOMAIN map, t \in Topics :
                                map[p][t] = Subscribed(c)

\* C2 witness: a propagate_block found the queue of its peer full, of
\* BUFFER_LEN + 1 messages a live consumer had not taken, and the peer is gone.
C2_Witness ==
    /\ lastCall.op = "propagate_block"
    /\ \E i \in DOMAIN lastCall.kinds :
          /\ lastCall.kinds[i] = "StreamOverflow"
          /\ NodeId(lastCall.nodes[i]) \notin DOMAIN map
    /\ \E c \in ChanIds :
          /\ Len(chans[c].q) = BUFFER_LEN + 1
          /\ chans[c].rx
          /\ ~chans[c].tx

\* The nodes of a list whose try_send was not Ok, in the order listed.
RECURSIVE FailedNodes(_, _)
FailedNodes(nodes, kinds) ==
    IF nodes = <<>>
    THEN <<>>
    ELSE (IF Head(kinds) = "Ok" THEN <<>> ELSE <<Head(nodes)>>)
             \o FailedNodes(Tail(nodes), Tail(kinds))

\* The topic a propagation sends on.
TopicOf(op) ==
    IF op = "propagate_block" THEN "block_announcements"
    ELSE IF op = "propagate_message" THEN "messages"
    ELSE IF op = "propagate_gossip_to" THEN "gossip"
    ELSE "block_solicitations"

\* C11: propagate_block and propagate_message return ok if and only if every
\* listed peer has a record and its enqueue succeeded; otherwise they return
\* err(unreached), unreached being exactly the listed peers that were absent
\* or whose enqueue failed, in the order listed; and the item is delivered to
\* every other listed peer.  In full, for a call with distinct nodes: every
\* listed node got its own outcome; a node is Ok only if it had a record
\* subscribed on the topic, and Absent exactly if it had no record; the
\* result is ok exactly when every outcome is Ok, and else err with the
\* failed nodes in the order listed; the item is accepted once by the channel
\* of every node that was Ok, whatever happened to the others, and by no
\* other channel.
C11_PropagateContract ==
    lastCall.op \in ListPropagations =>
        LET call == lastCall
            nodes == call.nodes
            topic == TopicOf(call.op)
            IsOk(i) == call.kinds[i] = "Ok"
        IN  /\ DOMAIN call.kinds = DOMAIN nodes
            /\ \A i \in DOMAIN nodes :
                  LET id == NodeId(nodes[i])
                  IN  /\ IsOk(i) =>
                            /\ id \in DOMAIN call.pre_map
                            /\ call.pre_map[id][topic].state = "Subscribed"
                      /\ call.kinds[i] = "Absent" <=> id \notin DOMAIN call.pre_map
            /\ call.result = "ok" <=> \A i \in DOMAIN nodes : IsOk(i)
            /\ call.result \in {"ok", "err"}
            /\ call.unreached = FailedNodes(nodes, call.kinds)
            /\ DOMAIN accepted = DOMAIN call.pre_acc
            /\ \A c \in ChanIds :
                  LET hit == \E i \in DOMAIN nodes :
                                 /\ IsOk(i)
                                 /\ call.pre_map[NodeId(nodes[i])][topic].sender = c
                  IN  accepted[c] = IF hit THEN Append(call.pre_acc[c], call.item)
                                    ELSE call.pre_acc[c]

\* C11 witness: a propagate_block to two peers failed for the first, which is
\* the one unreached node, and delivered the header to the second.
C11_Witness ==
    /\ lastCall.op = "propagate_block"
    /\ Len(lastCall.nodes) = 2
    /\ lastCall.kinds[1] \notin {"Ok", "Absent"}
    /\ lastCall.kinds[2] = "Ok"
    /\ lastCall.result = "err"
    /\ lastCall.unreached = <<lastCall.nodes[1]>>
    /\ LET id == NodeId(lastCall.nodes[2])
       IN  /\ id \in DOMAIN map
           /\ map[id]["block_announcements"].state = "Subscribed"
           /\ chans[map[id]["block_announcements"].sender].q # <<>>

\* The handles of the map that hold the Sender of channel c.
HoldersOf(c) ==
    {pt \in (DOMAIN map) \X Topics : map[pt[1]][pt[2]] = Subscribed(c)}

\* C12: peer removal atomicity. Between operations a peer is either present
\* with the Sender of every topic it is subscribed on alive, or absent with
\* every Sender its record held dropped: a live Sender is held by exactly one
\* handle of the map. A stream whose Sender was dropped never waits: a poll
\* yields a message left in the queue or end of stream, and a stream that
\* ended has nothing left.
C12_RemovalAtomicity ==
    /\ \A p \in DOMAIN map, t \in Topics :
          map[p][t].state = "Subscribed" =>
              /\ map[p][t].sender \in ChanIds
              /\ chans[map[p][t].sender].tx
    /\ \A c \in ChanIds :
          /\ chans[c].tx => Cardinality(HoldersOf(c)) = 1
          /\ ~chans[c].tx => HoldersOf(c) = {}
          /\ (~chans[c].tx /\ chans[c].rx /\ ~chans[c].ended) => PollReady(chans[c])
          /\ chans[c].ended => ~chans[c].tx /\ chans[c].q = <<>>
    /\ lastCall.op \in ListPropagations =>
          \A id \in (DOMAIN lastCall.pre_map) \ (DOMAIN map), t \in Topics :
              lastCall.pre_map[id][t].state = "Subscribed" =>
                  ~chans[lastCall.pre_map[id][t].sender].tx

\* C12 witness: a propagation removed a peer subscribed on two topics; both
\* Senders are dropped and the stream of the topic that had not failed has
\* reached end of stream.
C12_Witness ==
    /\ lastCall.op \in ListPropagations
    /\ \E id \in (DOMAIN lastCall.pre_map) \ (DOMAIN map) :
          \E t1, t2 \in Topics :
              /\ t1 # t2
              /\ lastCall.pre_map[id][t1].state = "Subscribed"
              /\ lastCall.pre_map[id][t2].state = "Subscribed"
              /\ ~chans[lastCall.pre_map[id][t1].sender].rx
              /\ chans[lastCall.pre_map[id][t2].sender].rx
              /\ chans[lastCall.pre_map[id][t2].sender].ended

\* The channel a listed node of the last call was sent on, when it had a
\* record subscribed on the topic.
TargetOf(i) ==
    lastCall.pre_map[NodeId(lastCall.nodes[i])][TopicOf(lastCall.op)].sender

\* Every listed node of the last call had a record subscribed on the topic,
\* with its consumer alive and room in its buffer.
AllReachable ==
    \A i \in DOMAIN lastCall.nodes :
        LET id == NodeId(lastCall.nodes[i])
        IN  /\ id \in DOMAIN lastCall.pre_map
            /\ lastCall.pre_map[id][TopicOf(lastCall.op)].state = "Subscribed"
            /\ lastCall.rx[i] = "alive"
            /\ Len(lastCall.pre_acc[TargetOf(i)]) <= BUFFER_LEN

\* C13: a fully successful propagation changes nothing but the targeted
\* queues. A propagate_block to peers that are all subscribed to
\* announcements, with live consumers, returns ok; the map is what it was
\* (the same peers, the same subscription states); the channel of each listed
\* peer accepted the header once and no other channel accepted anything; and
\* each stream yields what its channel accepted, in order and once: what it
\* has yielded and what waits are together the accepted items, and with
\* nothing waiting a poll yields nothing further.
C13_SuccessfulPropagationFrame ==
    (lastCall.op = "propagate_block" /\ AllReachable) =>
        /\ lastCall.result = "ok"
        /\ lastCall.unreached = <<>>
        /\ map = lastCall.pre_map
        /\ \A c \in ChanIds :
              IF \E i \in DOMAIN lastCall.nodes : TargetOf(i) = c
              THEN /\ accepted[c] = Append(lastCall.pre_acc[c], lastCall.item)
                   /\ chans[c].tx
                   /\ IsPrefix(chans[c].out, accepted[c])
                   /\ chans[c].rx => accepted[c] = chans[c].out \o chans[c].q
                   /\ (chans[c].rx /\ chans[c].q = <<>>) => ~PollReady(chans[c])
              ELSE accepted[c] = lastCall.pre_acc[c]

\* C13 witness: propagate_block([A, B], H) returned ok with both peers in
\* the map, and each of the two streams has yielded H and nothing else.
C13_Witness ==
    /\ lastCall.op = "propagate_block"
    /\ Len(lastCall.nodes) = 2
    /\ lastCall.result = "ok"
    /\ DOMAIN map = Peers
    /\ \A i \in DOMAIN lastCall.nodes :
          /\ chans[TargetOf(i)].out = <<lastCall.item>>
          /\ chans[TargetOf(i)].q = <<>>
          /\ accepted[TargetOf(i)] = <<lastCall.item>>

\* The peer a call on one peer was made for.
CalledId == NodeId(lastCall.nodes[1])

\* Channel c was created by the last call.
CreatedByCall(c) == c \in ChanIds /\ c > Len(lastCall.pre_acc)

\* C14: insert_peer(id, handles) installs the handles under id whatever the
\* map held: afterwards id has one record, made of the new handles only
\* (every Subscribed handle holds the live Sender of a channel the old record
\* did not have), the other records are untouched, and every Sender of a
\* record id had before, a lazily created one included, is dropped, so that
\* its streams never wait and end. Later propagations send only on channels
\* of records the map held when they were called, never on a replaced one.
C14_InsertPeerReplaces ==
    /\ lastCall.op = "insert_peer" =>
          LET id == CalledId
              pre == lastCall.pre_map
          IN  /\ DOMAIN map = DOMAIN pre \cup {id}
              /\ \A p \in DOMAIN pre \ {id} : map[p] = pre[p]
              /\ \A t \in Topics :
                    map[id][t].state = "Subscribed" =>
                        /\ CreatedByCall(map[id][t].sender)
                        /\ chans[map[id][t].sender].tx
              /\ id \in DOMAIN pre =>
                    \A t \in Topics :
                        pre[id][t].state = "Subscribed" =>
                            LET old == chans[pre[id][t].sender]
                            IN  /\ ~old.tx
                                /\ HoldersOf(pre[id][t].sender) = {}
                                /\ (old.rx /\ ~old.ended) => PollReady(old)
    /\ lastCall.op \in ListPropagations =>
          \A c \in ChanIds :
              accepted[c] # lastCall.pre_acc[c] =>
                  \E p \in DOMAIN lastCall.pre_map, t \in Topics :
                      lastCall.pre_map[p][t] = Subscribed(c)

\* C14 witness: insert_peer replaced a record that subscribe_to_messages had
\* created; the stream of that subscription has ended, and the new record is
\* subscribed to announcements only.
C14_Witness ==
    /\ lastCall.op = "insert_peer"
    /\ CalledId \in DOMAIN lastCall.pre_map
    /\ lastCall.pre_map[CalledId]["messages"].state = "Subscribed"
    /\ chans[lastCall.pre_map[CalledId]["messages"].sender].ended
    /\ map[CalledId]["messages"] = NotSubscribed
    /\ map[CalledId]["block_announcements"].state = "Subscribed"

\* The subscribing methods of PeerMap and the topics each one subscribes.
Subscriptions ==
    {"subscribe_to_block_events", "subscribe_to_messages", "subscribe_to_gossip"}

RequestedTopics(op) ==
    IF op = "subscribe_to_block_events"
    THEN {"block_announcements", "block_solicitations"}
    ELSE IF op = "subscribe_to_messages" THEN {"messages"}
    ELSE {"gossip"}

\* C15: subscribe_to_block_events, subscribe_to_messages and
\* subscribe_to_gossip have ensure semantics. After the call id has a record
\* whose requested topics are Subscribed, each on a channel of its own the
\* call created; every other topic of id is NotSubscribed if id had no
\* record, and else what it was, its Sender alive; the Sender a requested
\* topic held before is dropped; the records of the other peers are what they
\* were; and the call created no other channel.
C15_SubscribeEnsures ==
    lastCall.op \in Subscriptions =>
        LET id == CalledId
            pre == lastCall.pre_map
            req == RequestedTopics(lastCall.op)
        IN  /\ DOMAIN map = DOMAIN pre \cup {id}
            /\ \A p \in DOMAIN pre \ {id} : map[p] = pre[p]
            /\ Len(chans) = Len(lastCall.pre_acc) + Cardinality(req)
            /\ \A t \in req :
                  /\ map[id][t].state = "Subscribed"
                  /\ CreatedByCall(map[id][t].sender)
                  /\ chans[map[id][t].sender].tx
                  /\ \A u \in req \ {t} : map[id][u] # map[id][t]
                  /\ (id \in DOMAIN pre /\ pre[id][t].state = "Subscribed") =>
                        ~chans[pre[id][t].sender].tx
            /\ \A t \in Topics \ req :
                  IF id \in DOMAIN pre
                  THEN /\ map[id][t] = pre[id][t]
                       /\ map[id][t].state = "Subscribed" =>
                             chans[map[id][t].sender].tx
                  ELSE map[id][t] = NotSubscribed

\* C15 witness: subscribe_to_gossip on a peer that was subscribed on another
\* topic kept that subscription and added the gossip one.
C15_Witness ==
    /\ lastCall.op = "subscribe_to_gossip"
    /\ CalledId \in DOMAIN lastCall.pre_map
    /\ lastCall.pre_map[CalledId]["gossip"] = NotSubscribed
    /\ map[CalledId]["gossip"].state = "Subscribed"
    /\ \E t \in Topics \ {"gossip"} :
          /\ lastCall.pre_map[CalledId][t].state = "Subscribed"
          /\ map[CalledId][t] = lastCall.pre_map[CalledId][t]

\* The kinds of a try_send on a channel that is broken: its consumer gone or
\* its buffer full.
BrokenKinds == {"SubscriptionClosed", "StreamOverflow", "Unexpected"}

\* C16: propagate_gossip_to(id, gossip) returns ok exactly when the peer is
\* present and the gossip was enqueued on its gossip channel, and then the
\* map is what it was; if the peer is absent it returns err(gossip) with the
\* payload it was given and the map is what it was; if the gossip channel is
\* broken (a try_send on a dropped consumer fails) it returns err(gossip)
\* with the payload it was given and the record of the peer, with its
\* Senders, is gone, the other records kept. Nothing is enqueued unless the
\* result is ok.
C16_GossipContract ==
    lastCall.op = "propagate_gossip_to" =>
        LET id == CalledId
            pre == lastCall.pre_map
            kind == lastCall.kinds[1]
        IN  /\ lastCall.result \in {"ok", "err"}
            /\ lastCall.result = "ok" <=> kind = "Ok"
            /\ kind = "Absent" <=> id \notin DOMAIN pre
            /\ lastCall.rx[1] = "dropped" => kind = "SubscriptionClosed"
            /\ kind = "Ok" =>
                  /\ id \in DOMAIN pre
                  /\ pre[id]["gossip"].state = "Subscribed"
                  /\ map = pre
                  /\ \A c \in ChanIds :
                        accepted[c] = IF c = pre[id]["gossip"].sender
                                      THEN Append(lastCall.pre_acc[c], lastCall.item)
                                      ELSE lastCall.pre_acc[c]
            /\ kind # "Ok" =>
                  /\ lastCall.returned = lastCall.item
                  /\ accepted = lastCall.pre_acc
            /\ kind = "Absent" => map = pre
            /\ kind \in BrokenKinds =>
                  /\ DOMAIN map = DOMAIN pre \ {id}
                  /\ \A p \in DOMAIN map : map[p] = pre[p]
                  /\ \A t \in Topics :
                        pre[id][t].state = "Subscribed" =>
                            ~chans[pre[id][t].sender].tx

\* C16 witness: propagate_gossip_to found the gossip queue of the peer full;
\* the gossip came back in the error and the peer is gone.
C16_Witness ==
    /\ lastCall.op = "propagate_gossip_to"
    /\ lastCall.kinds = <<"StreamOverflow">>
    /\ lastCall.result = "err"
    /\ lastCall.returned = lastCall.item
    /\ CalledId \in DOMAIN lastCall.pre_map
    /\ CalledId \notin DOMAIN map

\* C17: solicit_blocks(id, hashes) never changes the peer records. The map,
\* handles included, is what it was, and every Sender it holds is alive; when
\* the try_send is Ok the hashes are accepted once by the solicitation
\* channel of the peer; on overflow, on any other failure, or when the peer
\* has no record (and then none is created) nothing is accepted anywhere; and
\* the call returns no result.
C17_SolicitLeavesPeers ==
    lastCall.op = "solicit_blocks" =>
        LET id == CalledId
            pre == lastCall.pre_map
            kind == lastCall.kinds[1]
        IN  /\ map = pre
            /\ lastCall.result = ""
            /\ kind = "Absent" <=> id \notin DOMAIN pre
            /\ \A p \in DOMAIN pre, t \in Topics :
                  pre[p][t].state = "Subscribed" => chans[pre[p][t].sender].tx
            /\ kind = "Ok" =>
                  /\ pre[id]["block_solicitations"].state = "Subscribed"
                  /\ \A c \in ChanIds :
                        accepted[c] =
                            IF c = pre[id]["block_solicitations"].sender
                            THEN Append(lastCall.pre_acc[c], lastCall.item)
                            ELSE lastCall.pre_acc[c]
            /\ kind # "Ok" => accepted = lastCall.pre_acc

\* C17 witness: solicit_blocks found the solicitation queue of the peer full,
\* and the peer is still in the map with its Sender alive.
C17_Witness ==
    /\ lastCall.op = "solicit_blocks"
    /\ lastCall.kinds = <<"StreamOverflow">>
    /\ CalledId \in DOMAIN map
    /\ map[CalledId]["block_solicitations"].state = "Subscribed"
    /\ chans[map[CalledId]["block_solicitations"].sender].tx
    /\ Len(accepted[map[CalledId]["block_solicitations"].sender]) >= BUFFER_LEN + 1

\* The number of messages process has handled to its end.
Handled == IF pc = "idle" THEN Len(received) ELSE Len(received) - 1

\* The blocks of the LeadershipBlock messages among the first n received.
LeadershipBlocksOf(n) ==
    LET first == SubSeq(received, 1, n)
        lead == SelectSeq(first, LAMBDA m : m.tag = "LeadershipBlock")
    IN  [i \in DOMAIN lead |-> lead[i].block]

\* C18: the tag decides the rebroadcast. The chain applications are, one for
\* one and in order, the messages received (the message in hand is applied
\* once process is past the apply step); the broadcasts are, one for one and
\* in order, the blocks of the LeadershipBlock messages handled to their end,
\* each sent after its own application; a NetworkBlock is never broadcast.
C18_TagDecidesRebroadcast ==
    /\ Len(chain) = IF pc \in {"write", "apply"} THEN Len(received) - 1
                    ELSE Len(received)
    /\ \A i \in DOMAIN chain :
          /\ chain[i].block = received[i].block
          /\ chain[i].tag = received[i].tag
    /\ [i \in DOMAIN network_broadcast |-> network_broadcast[i].block]
          = LeadershipBlocksOf(Handled)
    /\ \A i \in DOMAIN network_broadcast :
          /\ network_broadcast[i].applied \in DOMAIN chain
          /\ received[network_broadcast[i].applied].tag = "LeadershipBlock"
          /\ received[network_broadcast[i].applied].block = network_broadcast[i].block
          /\ \A j \in DOMAIN network_broadcast :
                i < j => network_broadcast[i].applied < network_broadcast[j].applied

\* C18 witness: a NetworkBlock and a LeadershipBlock of the same block, then
\* a NetworkBlock of another, all handled: three applications, one broadcast.
C18_Witness ==
    /\ pc = "idle"
    /\ received = << [tag |-> "NetworkBlock", block |-> "b1"],
                     [tag |-> "LeadershipBlock", block |-> "b1"],
                     [tag |-> "NetworkBlock", block |-> "b2"] >>
    /\ Len(chain) = 3
    /\ Len(network_broadcast) = 1
    /\ network_broadcast[1].block = "b1"
    /\ network_broadcast[1].applied = 2

\* C19: select terminates and stops for one of two reasons. The loop makes
\* at most one iteration per identifier the FIFO view held at the call (the
\* identifiers popped and those left make up that view), no unwrap fails, and
\* on return the count of accepted fragments equals max_per_block or the
\* FIFO view is empty.
C19_SelectTerminates ==
    Selected =>
        /\ ~lastSelect.panicked
        /\ lastSelect.popped \o lastSelect.post_entries = lastSelect.pre_entries
        /\ Len(lastSelect.applied) <= Len(lastSelect.popped)
        /\ lastSelect.total <= lastSelect.max_per_block
        /\ lastSelect.total
              = Cardinality({f \in SeqSet(lastSelect.applied) :
                                lastSelect.ledger[f] = "ok"})
        /\ \/ lastSelect.total = lastSelect.max_per_block
           \/ lastSelect.post_entries = <<>>

\* C19 witness: a select call with max_per_block = 1 accepted one fragment and
\* stopped at the limit with an identifier still in the FIFO view.
C19_Witness ==
    /\ Selected
    /\ lastSelect.max_per_block = 1
    /\ lastSelect.total = 1
    /\ Len(lastSelect.popped) = 2
    /\ lastSelect.post_entries # <<>>
    /\ entries_by_time = lastSelect.post_entries

\* The pool and its FIFO-by-time view are consistent: the identifiers the
\* view yields are the resident fragments.
ViewMatchesPool(view, resident) == SeqSet(view) = resident

\* C20 (as claimed): select preserves the consistency of the pool with its
\* FIFO-by-time view. If the view and the pool agreed when select was called
\* they agree when it returns, every fragment it left Pending is still
\* resident and still in the view, and no pool.remove failed.
C20_PoolViewConsistency ==
    (Selected /\ ViewMatchesPool(lastSelect.pre_entries, lastSelect.pre_pool))
        => /\ ~lastSelect.panicked
           /\ ViewMatchesPool(lastSelect.post_entries, lastSelect.post_pool)
           /\ \A f \in lastSelect.pre_pool :
                 lastSelect.pre_logs[f] = Pending
                     /\ f \notin SeqSet(lastSelect.applied)
                 => f \in lastSelect.post_pool
                    /\ f \in SeqSet(lastSelect.post_entries)

\* The fragments the ledger accepted during the last select call, in the
\* order apply_fragment was called on them.
AcceptedInSelect ==
    SelectSeq(lastSelect.applied, LAMBDA f : lastSelect.ledger[f] = "ok")

\* C21: after one select call on a fresh OldestFirst the builder holds at
\* most max_per_block fragments, each once; they are the fragments the call
\* accepted, taken from the head of the FIFO view in its order; a fragment is
\* in the builder exactly when its log status is InABlock with the block date
\* of the call; and a fragment the call did not remove from the pool has the
\* status it had before.
C21_BuilderMatchesLog ==
    (Selected /\ lastSelect.pre_builder = <<>>) =>
        LET b == lastSelect.post_builder
        IN  /\ Len(b) <= lastSelect.max_per_block
            /\ \A i, j \in DOMAIN b : i # j => b[i] # b[j]
            /\ b = AcceptedInSelect
            /\ IsPrefix(lastSelect.applied, lastSelect.pre_entries)
            /\ \A f \in Fragments :
                  f \in SeqSet(b) <=> logs[f] = InABlock(lastSelect.date)
            /\ \A f \in SeqSet(b) : lastSelect.pre_logs[f] = Pending
            /\ \A f \in lastSelect.pre_pool \ SeqSet(lastSelect.applied) :
                  /\ f \in lastSelect.post_pool
                  /\ logs[f] = lastSelect.pre_logs[f]

\* C21 witness: a select on a fresh OldestFirst with max_per_block = 2 met a
\* fragment the ledger rejects and filled the builder with two others.
C21_Witness ==
    /\ Selected
    /\ lastSelect.pre_builder = <<>>
    /\ lastSelect.max_per_block = 2
    /\ Len(lastSelect.post_builder) = 2
    /\ RejectedInSelect # {}
    /\ \A f \in SeqSet(lastSelect.post_builder) : logs[f] = InABlock(lastSelect.date)

====
